---- MODULE Spec2Model ----
(***************************************************************************)
(* Model of the payoff / break-even engine of Option_trading.py:           *)
(* calculate_payoff (lines 103-199) and calculate_break_even (202-286).    *)
(*                                                                         *)
(* Prices, strikes and premiums are integers (a fixed-point price unit);   *)
(* Python's float rounding is outside the model.  Python lists and numpy   *)
(* arrays are sequences; Python index i is TLA+ index i + 1 (see At).      *)
(* An optional argument is <<>> for None and <<v>> for the value v.        *)
(***************************************************************************)
EXTENDS Integers, Sequences, FiniteSets, TLC

VARIABLES strategy, stock_prices, strike_prices, premiums, positions,
          avg_stock_price, payoff, break_even_points, repeated

vars == <<strategy, stock_prices, strike_prices, premiums, positions,
          avg_stock_price, payoff, break_even_points, repeated>>

-----------------------------------------------------------------------------
(* Bounds of the explored inputs.                                          *)
MaxStrike == 3
MaxPremium == 2
MaxLegs == 5

Strikes == 1..MaxStrike
Premiums == 0..MaxPremium
AvgPrices == 1..MaxStrike
Kinds == {"Call", "Put", "Stock"}

-----------------------------------------------------------------------------
(* The keys of STRATEGIES, and one name that is not a key.                 *)
STRATEGIES ==
    {"Long Call", "Long Put", "Covered Call", "Protective Put", "Iron Condor",
     "Bull Put Spread", "Bear Call Spread", "Long Straddle", "Short Straddle",
     "Long Strangle", "Short Strangle", "Butterfly Spread", "Iron Butterfly",
     "Collar"}

UnknownStrategy == "Calendar Spread"

StrategyNames == STRATEGIES \cup {UnknownStrategy}

-----------------------------------------------------------------------------
(* Python values.                                                          *)
None == <<>>
Some(v) == <<v>>
IsNone(o) == o = <<>>
Val(o) == o[1]

At(seq, i) == seq[i + 1]

Max(a, b) == IF a >= b THEN a ELSE b
Min(a, b) == IF a <= b THEN a ELSE b

(* The outcome of a call: a returned value or a raised exception.          *)
Return(v) == <<"return", v>>
Raise(e) == <<"raise", e>>
Returned(r) == r[1] = "return"
Raised(r) == r[1] = "raise"
Value(r) == r[2]
Pending == <<"pending">>

ValueError(name, count) == [exc |-> "ValueError", strategy |-> name, count |-> count]
IndexError == [exc |-> "IndexError", strategy |-> "", count |-> 0]

(* An entry of the break-even list: a number or a string marker.           *)
Num(x) == <<"num", x>>
Str(s) == <<"str", s>>
IsNum(e) == e[1] = "num"
IsStr(e) == e[1] = "str"

-----------------------------------------------------------------------------
(* calculate_payoff                                                        *)

(* Lines 105-110: the leg-count guard; 0 when no guard fires, else the     *)
(* count named in the message.                                             *)
leg_count_required(name, strikes) ==
    IF name \in {"Iron Condor", "Iron Butterfly"} /\ Len(strikes) < 4 THEN 4
    ELSE IF name \in {"Bull Put Spread", "Bear Call Spread", "Collar"}
            /\ Len(strikes) < 2 THEN 2
    ELSE IF name \in {"Long Straddle", "Short Straddle", "Long Strangle",
                      "Short Strangle"} /\ Len(strikes) < 2 THEN 2
    ELSE 0

(* Lines 111-115: positions[i] is read for every strike, premiums[i] only  *)
(* for a "Call" or "Put" leg; a read past the end raises IndexError.       *)
loop_raises(strikes, prems, kinds) ==
    \E i \in 1..Len(strikes) :
        \/ i > Len(kinds)
        \/ kinds[i] \in {"Call", "Put"} /\ i > Len(prems)

(* leg_term with the "Put" leg taken as a call.                            *)
leg_term_put_as_call(S, kind, strike_price, premium) ==
    IF kind \in {"Call", "Put"} THEN Max(S - strike_price, 0) - premium
    ELSE 0

(* leg_term with the premium added instead of subtracted.                  *)
leg_term_premium_sign(S, kind, strike_price, premium) ==
    IF kind = "Call" THEN Max(S - strike_price, 0) + premium
    ELSE IF kind = "Put" THEN Max(strike_price - S, 0) + premium
    ELSE 0

(* leg_term without the floor of the intrinsic value at 0.                 *)
leg_term_no_floor(S, kind, strike_price, premium) ==
    IF kind = "Call" THEN (S - strike_price) - premium
    ELSE IF kind = "Put" THEN (strike_price - S) - premium
    ELSE 0

(* Lines 112-115: what one leg adds to the curve at price S.               *)
leg_term(S, kind, strike_price, premium) ==
    IF kind = "Call" THEN Max(S - strike_price, 0) - premium
    ELSE IF kind = "Put" THEN Max(strike_price - S, 0) - premium
    ELSE 0

(* Lines 104, 111-115: zeros plus the sum of the leg terms.                *)
RECURSIVE loop_sum(_, _, _, _, _)
loop_sum(S, strikes, prems, kinds, n) ==
    IF n = 0 THEN 0
    ELSE loop_sum(S, strikes, prems, kinds, n - 1)
         + (IF kinds[n] \in {"Call", "Put"}
            THEN leg_term(S, kinds[n], strikes[n], prems[n])
            ELSE 0)

(* generic_payoff counting the first leg only.                             *)
generic_payoff_first_leg(S, strikes, prems, kinds) ==
    loop_sum(S, strikes, prems, kinds, Min(1, Len(strikes)))

generic_payoff(S, strikes, prems, kinds) ==
    loop_sum(S, strikes, prems, kinds, Len(strikes))

(* covered_call_payoff without the short call: the stock and the premium.  *)
covered_call_payoff_uncapped(S, strikes, prems, avg) ==
    (S - avg) + At(prems, 0)

(* Lines 117-123.                                                          *)
covered_call_payoff(S, strikes, prems, avg) ==
    LET stock_payoff == S - avg
        short_call_payoff == Min(0, At(strikes, 0) - S)
    IN  stock_payoff + short_call_payoff + At(prems, 0)

(* Lines 124-130.                                                          *)
protective_put_payoff(S, strikes, prems, avg) ==
    LET stock_payoff == S - avg
        put_payoff == Max(At(strikes, 0) - S, 0)
    IN  stock_payoff + put_payoff - At(prems, 0)

(* iron_condor_payoff with the long put taken at the short put's strike.   *)
iron_condor_payoff_put_strike(S, strikes, prems) ==
    LET short_call_payoff == -Max(0, S - At(strikes, 0)) + At(prems, 0)
        long_call_payoff == Max(0, S - At(strikes, 1)) - At(prems, 1)
        short_put_payoff == -Max(0, At(strikes, 3) - S) + At(prems, 2)
        long_put_payoff == Max(0, At(strikes, 2) - S) - At(prems, 3)
    IN  short_call_payoff + long_call_payoff + short_put_payoff + long_put_payoff

(* Lines 131-141.                                                          *)
iron_condor_payoff(S, strikes, prems) ==
    LET short_call_payoff == -Max(0, S - At(strikes, 0)) + At(prems, 0)
        long_call_payoff == Max(0, S - At(strikes, 1)) - At(prems, 1)
        short_put_payoff == -Max(0, At(strikes, 2) - S) + At(prems, 2)
        long_put_payoff == Max(0, At(strikes, 3) - S) - At(prems, 3)
    IN  short_call_payoff + long_call_payoff + short_put_payoff + long_put_payoff

(* bull_put_spread_payoff with the two put terms added.                    *)
bull_put_spread_payoff_sum(S, strikes, prems) ==
    LET short_put_payoff == Max(0, At(strikes, 0) - S) - At(prems, 0)
        long_put_payoff == Max(0, At(strikes, 1) - S) - At(prems, 1)
    IN  long_put_payoff + short_put_payoff

(* Lines 142-148.                                                          *)
bull_put_spread_payoff(S, strikes, prems) ==
    LET short_put_payoff == Max(0, At(strikes, 0) - S) - At(prems, 0)
        long_put_payoff == Max(0, At(strikes, 1) - S) - At(prems, 1)
    IN  long_put_payoff - short_put_payoff

(* Lines 149-152.                                                          *)
bear_call_spread_payoff(S, strikes, prems) ==
    LET short_call_payoff == Min(0, At(strikes, 0) - S) + At(prems, 0)
        long_call_payoff == Max(0, S - At(strikes, 1)) - At(prems, 1)
    IN  long_call_payoff + short_call_payoff

(* long_straddle_payoff with the put struck at strike_prices[1].           *)
long_straddle_payoff_put_strike(S, strikes, prems) ==
    LET long_call_payoff == Max(S - At(strikes, 0), 0) - At(prems, 0)
        long_put_payoff == Max(At(strikes, 1) - S, 0) - At(prems, 1)
    IN  long_call_payoff + long_put_payoff

(* Lines 153-158.                                                          *)
long_straddle_payoff(S, strikes, prems) ==
    LET long_call_payoff == Max(S - At(strikes, 0), 0) - At(prems, 0)
        long_put_payoff == Max(At(strikes, 0) - S, 0) - At(prems, 1)
    IN  long_call_payoff + long_put_payoff

(* short_straddle_payoff with the call premium credited for both legs.     *)
short_straddle_payoff_one_premium(S, strikes, prems) ==
    LET short_call_payoff == Min(0, S - At(strikes, 0)) + At(prems, 0)
        short_put_payoff == Min(0, At(strikes, 0) - S) + At(prems, 0)
    IN  short_call_payoff + short_put_payoff

(* Lines 159-164.                                                          *)
short_straddle_payoff(S, strikes, prems) ==
    LET short_call_payoff == Min(0, S - At(strikes, 0)) + At(prems, 0)
        short_put_payoff == Min(0, At(strikes, 0) - S) + At(prems, 1)
    IN  short_call_payoff + short_put_payoff

(* Lines 165-170.                                                          *)
long_strangle_payoff(S, strikes, prems) ==
    LET long_call_payoff == Max(S - At(strikes, 0), 0) - At(prems, 0)
        long_put_payoff == Max(At(strikes, 1) - S, 0) - At(prems, 1)
    IN  long_call_payoff + long_put_payoff

(* Lines 171-178.                                                          *)
short_strangle_payoff(S, strikes, prems) ==
    LET short_call_payoff == -(Max(0, S - At(strikes, 0))) + At(prems, 0)
        short_put_payoff == -(Max(0, At(strikes, 1) - S)) + At(prems, 1)
    IN  short_call_payoff + short_put_payoff

(* Lines 179-188.                                                          *)
iron_butterfly_payoff(S, strikes, prems) ==
    LET long_put_payoff == Max(0, At(strikes, 0) - S) - At(prems, 0)
        short_put_payoff == -(Max(0, At(strikes, 1) - S)) + At(prems, 1)
        short_call_payoff == -(Max(0, S - At(strikes, 2))) + At(prems, 2)
        long_call_payoff == Max(0, S - At(strikes, 3)) - At(prems, 3)
    IN  short_call_payoff + short_put_payoff + long_call_payoff + long_put_payoff

(* butterfly_spread_payoff with one short ATM call instead of two.         *)
butterfly_spread_payoff_one_atm(S, strikes, prems) ==
    LET itm_call_payoff == Max(S - At(strikes, 0), 0) - At(prems, 0)
        atm_call_payoff == Min(0, At(strikes, 1) - S) + At(prems, 1)
        otm_call_payoff == Max(S - At(strikes, 2), 0) - At(prems, 2)
    IN  itm_call_payoff + atm_call_payoff + otm_call_payoff

(* Lines 189-193.                                                          *)
butterfly_spread_payoff(S, strikes, prems) ==
    LET itm_call_payoff == Max(S - At(strikes, 0), 0) - At(prems, 0)
        atm_call_payoff == 2 * (Min(0, At(strikes, 1) - S) + At(prems, 1))
        otm_call_payoff == Max(S - At(strikes, 2), 0) - At(prems, 2)
    IN  itm_call_payoff + atm_call_payoff + otm_call_payoff

(* collar_payoff with the call leg bought instead of sold.                 *)
collar_payoff_long_call(S, strikes, prems, avg) ==
    LET stock_payoff == S - avg
        put_payoff == Max(0, At(strikes, 0) - S) - At(prems, 0)
        call_payoff == Max(0, S - At(strikes, 1)) - At(prems, 1)
    IN  stock_payoff + put_payoff + call_payoff

(* Lines 194-198.                                                          *)
collar_payoff(S, strikes, prems, avg) ==
    LET stock_payoff == S - avg
        put_payoff == Max(0, At(strikes, 0) - S) - At(prems, 0)
        call_payoff == -Max(0, S - At(strikes, 1)) + At(prems, 1)
    IN  stock_payoff + put_payoff + call_payoff

(* payoff_branch with no branch for Bull Put Spread.                       *)
payoff_branch_no_bull_put(name, avg) ==
    IF name = "Covered Call" /\ ~IsNone(avg) THEN "Covered Call"
    ELSE IF name = "Protective Put" /\ ~IsNone(avg) THEN "Protective Put"
    ELSE IF name \in {"Iron Condor", "Bear Call Spread",
                      "Long Straddle", "Short Straddle", "Long Strangle",
                      "Short Strangle", "Iron Butterfly", "Butterfly Spread"}
         THEN name
    ELSE IF name = "Collar" /\ ~IsNone(avg) THEN "Collar"
    ELSE ""

(* Lines 117-198: which branch of the if / elif chain is taken; "" when    *)
(* none is, and the curve of lines 104-115 is returned as it stands.       *)
payoff_branch(name, avg) ==
    IF name = "Covered Call" /\ ~IsNone(avg) THEN "Covered Call"
    ELSE IF name = "Protective Put" /\ ~IsNone(avg) THEN "Protective Put"
    ELSE IF name \in {"Iron Condor", "Bull Put Spread", "Bear Call Spread",
                      "Long Straddle", "Short Straddle", "Long Strangle",
                      "Short Strangle", "Iron Butterfly", "Butterfly Spread"}
         THEN name
    ELSE IF name = "Collar" /\ ~IsNone(avg) THEN "Collar"
    ELSE ""

(* The highest Python index of strike_prices / premiums a branch reads,    *)
(* plus one (0: the branch reads neither).                                 *)
branch_strikes_read(branch) ==
    CASE branch \in {"Covered Call", "Protective Put", "Long Straddle",
                     "Short Straddle"} -> 1
      [] branch \in {"Bull Put Spread", "Bear Call Spread", "Long Strangle",
                     "Short Strangle", "Collar"} -> 2
      [] branch = "Butterfly Spread" -> 3
      [] branch \in {"Iron Condor", "Iron Butterfly"} -> 4
      [] OTHER -> 0

branch_premiums_read(branch) ==
    CASE branch \in {"Covered Call", "Protective Put"} -> 1
      [] branch \in {"Bull Put Spread", "Bear Call Spread", "Long Straddle",
                     "Short Straddle", "Long Strangle", "Short Strangle",
                     "Collar"} -> 2
      [] branch = "Butterfly Spread" -> 3
      [] branch \in {"Iron Condor", "Iron Butterfly"} -> 4
      [] OTHER -> 0

branch_raises(branch, strikes, prems) ==
    \/ Len(strikes) < branch_strikes_read(branch)
    \/ Len(prems) < branch_premiums_read(branch)

(* Lines 104-199 at one grid point S, when nothing raises.                 *)
payoff_at(name, S, strikes, prems, kinds, avg) ==
    LET branch == payoff_branch(name, avg) IN
    CASE branch = "Covered Call" -> covered_call_payoff(S, strikes, prems, Val(avg))
      [] branch = "Protective Put" -> protective_put_payoff(S, strikes, prems, Val(avg))
      [] branch = "Iron Condor" -> iron_condor_payoff(S, strikes, prems)
      [] branch = "Bull Put Spread" -> bull_put_spread_payoff(S, strikes, prems)
      [] branch = "Bear Call Spread" -> bear_call_spread_payoff(S, strikes, prems)
      [] branch = "Long Straddle" -> long_straddle_payoff(S, strikes, prems)
      [] branch = "Short Straddle" -> short_straddle_payoff(S, strikes, prems)
      [] branch = "Long Strangle" -> long_strangle_payoff(S, strikes, prems)
      [] branch = "Short Strangle" -> short_strangle_payoff(S, strikes, prems)
      [] branch = "Iron Butterfly" -> iron_butterfly_payoff(S, strikes, prems)
      [] branch = "Butterfly Spread" -> butterfly_spread_payoff(S, strikes, prems)
      [] branch = "Collar" -> collar_payoff(S, strikes, prems, Val(avg))
      [] OTHER -> generic_payoff(S, strikes, prems, kinds)

(* calculate_payoff with the curve returned last grid point first.         *)
calculate_payoff_reversed(name, grid, strikes, prems, kinds, avg) ==
    IF leg_count_required(name, strikes) # 0
    THEN Raise(ValueError(name, leg_count_required(name, strikes)))
    ELSE IF loop_raises(strikes, prems, kinds) THEN Raise(IndexError)
    ELSE IF branch_raises(payoff_branch(name, avg), strikes, prems)
    THEN Raise(IndexError)
    ELSE Return([j \in 1..Len(grid) |->
                    payoff_at(name, grid[Len(grid) + 1 - j], strikes, prems,
                              kinds, avg)])

(* calculate_payoff with the leg loop run before the leg-count guard.      *)
calculate_payoff_loop_first(name, grid, strikes, prems, kinds, avg) ==
    IF loop_raises(strikes, prems, kinds) THEN Raise(IndexError)
    ELSE IF leg_count_required(name, strikes) # 0
    THEN Raise(ValueError(name, leg_count_required(name, strikes)))
    ELSE IF branch_raises(payoff_branch(name, avg), strikes, prems)
    THEN Raise(IndexError)
    ELSE Return([j \in 1..Len(grid) |->
                    payoff_at(name, grid[j], strikes, prems, kinds, avg)])

(* Lines 103-199.                                                          *)
calculate_payoff(name, grid, strikes, prems, kinds, avg) ==
    IF leg_count_required(name, strikes) # 0
    THEN Raise(ValueError(name, leg_count_required(name, strikes)))
    ELSE IF loop_raises(strikes, prems, kinds) THEN Raise(IndexError)
    ELSE IF branch_raises(payoff_branch(name, avg), strikes, prems)
    THEN Raise(IndexError)
    ELSE Return([j \in 1..Len(grid) |->
                    payoff_at(name, grid[j], strikes, prems, kinds, avg)])

(* The price grid with the returned curve written into it.                 *)
stock_prices_overwritten(grid, result) ==
    IF Returned(result) THEN Value(result) ELSE grid

(* Lines 104-199: the only array written is payoff, which line 104         *)
(* allocates anew and the branches rebind to new arrays; the grid passed   *)
(* in is as it was when the call ends, with a value or with an error.      *)
stock_prices_after_payoff(grid, result) == grid

-----------------------------------------------------------------------------
(* calculate_break_even                                                    *)

AvgRequired == "Avg Stock Price Required"
NotApplicable == "N/A"

(* Lines 203-205.                                                          *)
long_call_break_even(strikes, prems) ==
    <<Num(At(strikes, 0) + At(prems, 0))>>

(* Lines 206-208.                                                          *)
long_put_break_even(strikes, prems) ==
    <<Num(At(strikes, 0) - At(prems, 0))>>

(* Lines 209-213.                                                          *)
covered_call_break_even(prems, avg) ==
    IF ~IsNone(avg) THEN <<Num(Val(avg) + At(prems, 0))>>
    ELSE <<Str(AvgRequired)>>

(* Lines 214-218.                                                          *)
protective_put_break_even(prems, avg) ==
    IF ~IsNone(avg) THEN <<Num(Val(avg) - At(prems, 0))>>
    ELSE <<Str(AvgRequired)>>

(* iron_condor_break_even with the net credit taken as a net debit.        *)
iron_condor_break_even_net_debit(strikes, prems) ==
    LET net_credit == (At(prems, 1) + At(prems, 3)) - (At(prems, 0) + At(prems, 2))
        lower_bep == At(strikes, 2) - net_credit
        upper_bep == At(strikes, 0) + net_credit
    IN  <<Num(lower_bep), Num(upper_bep)>>

(* Lines 219-225.                                                          *)
iron_condor_break_even(strikes, prems) ==
    LET net_credit == (At(prems, 0) + At(prems, 2)) - (At(prems, 1) + At(prems, 3))
        lower_bep == At(strikes, 2) - net_credit
        upper_bep == At(strikes, 0) + net_credit
    IN  <<Num(lower_bep), Num(upper_bep)>>

(* bull_put_spread_break_even with the net credit added to the strike.     *)
bull_put_spread_break_even_plus(strikes, prems) ==
    LET net_credit == At(prems, 0) - At(prems, 1)
        break_even_point == At(strikes, 0) + net_credit
    IN  <<Num(break_even_point)>>

(* Lines 226-232.                                                          *)
bull_put_spread_break_even(strikes, prems) ==
    LET net_credit == At(prems, 0) - At(prems, 1)
        break_even_point == At(strikes, 0) - net_credit
    IN  <<Num(break_even_point)>>

(* Lines 237-241.                                                          *)
bear_call_spread_break_even(strikes, prems) ==
    LET net_premium == At(prems, 0) - At(prems, 1)
        break_even_point == At(strikes, 0) + net_premium
    IN  <<Num(break_even_point)>>

(* straddle_break_even with the call premium alone as the total premium.   *)
straddle_break_even_call_premium(strikes, prems) ==
    LET total_premium == At(prems, 0)
        lower_bep == At(strikes, 0) - total_premium
        upper_bep == At(strikes, 0) + total_premium
    IN  <<Num(lower_bep), Num(upper_bep)>>

(* Lines 242-253: Long Straddle and Short Straddle have the same body.     *)
straddle_break_even(strikes, prems) ==
    LET total_premium == At(prems, 0) + At(prems, 1)
        lower_bep == At(strikes, 0) - total_premium
        upper_bep == At(strikes, 0) + total_premium
    IN  <<Num(lower_bep), Num(upper_bep)>>

(* strangle_break_even with both bounds taken from the call strike.        *)
strangle_break_even_call_strike(strikes, prems) ==
    LET total_premium == At(prems, 0) + At(prems, 1)
        lower_bep == At(strikes, 0) - total_premium
        upper_bep == At(strikes, 0) + total_premium
    IN  <<Num(lower_bep), Num(upper_bep)>>

(* Lines 254-265: Long Strangle and Short Strangle have the same body.     *)
strangle_break_even(strikes, prems) ==
    LET total_premium == At(prems, 0) + At(prems, 1)
        lower_bep == At(strikes, 1) - total_premium
        upper_bep == At(strikes, 0) + total_premium
    IN  <<Num(lower_bep), Num(upper_bep)>>

(* butterfly_spread_break_even with the net premium taken as a credit.     *)
butterfly_spread_break_even_net_credit(strikes, prems) ==
    LET net_premium == (2 * At(prems, 1)) - At(prems, 0) - At(prems, 2)
        lower_bep == At(strikes, 0) + net_premium
        upper_bep == At(strikes, 2) - net_premium
    IN  <<Num(lower_bep), Num(upper_bep)>>

(* Lines 266-271.                                                          *)
butterfly_spread_break_even(strikes, prems) ==
    LET net_premium == At(prems, 0) - (2 * At(prems, 1)) + At(prems, 2)
        lower_bep == At(strikes, 0) + net_premium
        upper_bep == At(strikes, 2) - net_premium
    IN  <<Num(lower_bep), Num(upper_bep)>>

(* iron_butterfly_break_even centred on the long put strike.               *)
iron_butterfly_break_even_wing_strike(strikes, prems) ==
    LET total_premium == At(prems, 0) - At(prems, 1) - At(prems, 2) + At(prems, 3)
        lower_bep == At(strikes, 0) - total_premium
        upper_bep == At(strikes, 0) + total_premium
    IN  <<Num(lower_bep), Num(upper_bep)>>

(* Lines 272-277.                                                          *)
iron_butterfly_break_even(strikes, prems) ==
    LET total_premium == At(prems, 0) - At(prems, 1) - At(prems, 2) + At(prems, 3)
        lower_bep == At(strikes, 1) - total_premium
        upper_bep == At(strikes, 1) + total_premium
    IN  <<Num(lower_bep), Num(upper_bep)>>

(* collar_break_even with a marker for each of the two bounds.             *)
collar_break_even_two_markers(prems, avg) ==
    IF ~IsNone(avg)
    THEN <<Num(Val(avg) - At(prems, 0)), Num(Val(avg) + At(prems, 1))>>
    ELSE <<Str(AvgRequired), Str(AvgRequired)>>

(* collar_break_even falling through to the "N/A" marker without the       *)
(* average.                                                                *)
collar_break_even_not_applicable(prems, avg) ==
    IF ~IsNone(avg)
    THEN <<Num(Val(avg) - At(prems, 0)), Num(Val(avg) + At(prems, 1))>>
    ELSE <<Str("N/A")>>

(* Lines 278-284.                                                          *)
collar_break_even(prems, avg) ==
    IF ~IsNone(avg)
    THEN LET lower_bep == Val(avg) - At(prems, 0)
             upper_bep == Val(avg) + At(prems, 1)
         IN  <<Num(lower_bep), Num(upper_bep)>>
    ELSE <<Str(AvgRequired)>>

(* The number of strike_prices / premiums entries the branch of a strategy *)
(* reads (highest Python index plus one).                                  *)
solver_strikes_read(name) ==
    CASE name \in {"Long Call", "Long Put", "Bull Put Spread", "Bear Call Spread",
                   "Long Straddle", "Short Straddle"} -> 1
      [] name \in {"Long Strangle", "Short Strangle", "Iron Butterfly"} -> 2
      [] name \in {"Iron Condor", "Butterfly Spread"} -> 3
      [] OTHER -> 0

solver_premiums_read(name, avg) ==
    CASE name \in {"Long Call", "Long Put"} -> 1
      [] name \in {"Covered Call", "Protective Put"} -> IF IsNone(avg) THEN 0 ELSE 1
      [] name \in {"Bull Put Spread", "Bear Call Spread", "Long Straddle",
                   "Short Straddle", "Long Strangle", "Short Strangle"} -> 2
      [] name = "Collar" -> IF IsNone(avg) THEN 0 ELSE 2
      [] name = "Butterfly Spread" -> 3
      [] name \in {"Iron Condor", "Iron Butterfly"} -> 4
      [] OTHER -> 0

solver_raises(name, strikes, prems, avg) ==
    \/ Len(strikes) < solver_strikes_read(name)
    \/ Len(prems) < solver_premiums_read(name, avg)

(* Lines 202-286.                                                          *)
calculate_break_even(name, strikes, prems, avg) ==
    IF name = "Bear Call Spread" /\ Len(prems) < 2
    THEN Raise(ValueError(name, 2))
    ELSE IF solver_raises(name, strikes, prems, avg) THEN Raise(IndexError)
    ELSE Return(
      CASE name = "Long Call" -> long_call_break_even(strikes, prems)
        [] name = "Long Put" -> long_put_break_even(strikes, prems)
        [] name = "Covered Call" -> covered_call_break_even(prems, avg)
        [] name = "Protective Put" -> protective_put_break_even(prems, avg)
        [] name = "Iron Condor" -> iron_condor_break_even(strikes, prems)
        [] name = "Bull Put Spread" -> bull_put_spread_break_even(strikes, prems)
        [] name = "Bear Call Spread" -> bear_call_spread_break_even(strikes, prems)
        [] name \in {"Long Straddle", "Short Straddle"} -> straddle_break_even(strikes, prems)
        [] name \in {"Long Strangle", "Short Strangle"} -> strangle_break_even(strikes, prems)
        [] name = "Butterfly Spread" -> butterfly_spread_break_even(strikes, prems)
        [] name = "Iron Butterfly" -> iron_butterfly_break_even(strikes, prems)
        [] name = "Collar" -> collar_break_even(prems, avg)
        [] OTHER -> <<Str(NotApplicable)>>)

-----------------------------------------------------------------------------
(* The calls the callers make (lines 470-2111): the leg kinds each         *)
(* strategy is evaluated with, which strategies are given the average      *)
(* stock price, and the ascending price grid.                              *)
caller_positions(name) ==
    CASE name \in {"Long Call", "Covered Call"} -> <<"Call">>
      [] name \in {"Long Put", "Protective Put"} -> <<"Put">>
      [] name = "Iron Condor" -> <<"Call", "Call", "Put", "Put">>
      [] name = "Bull Put Spread" -> <<"Put", "Put">>
      [] name = "Bear Call Spread" -> <<"Call", "Call">>
      [] name \in {"Long Straddle", "Short Straddle", "Long Strangle",
                   "Short Strangle"} -> <<"Call", "Put">>
      [] name = "Butterfly Spread" -> <<"Call", "Call", "Call">>
      [] name = "Iron Butterfly" -> <<"Put", "Put", "Call", "Call">>
      [] name = "Collar" -> <<"Put", "Call">>
      [] OTHER -> <<>>

StockLinked == {"Covered Call", "Protective Put", "Collar"}

linspace(lo, hi) == [j \in 1..(hi - lo + 1) |-> lo + j - 1]

PriceGrid == linspace(0, MaxStrike + 1)

(* The scenarios the documentation of the engine works through.            *)
Scenarios ==
    { [strategy |-> "Long Call", stock_prices |-> <<90, 100, 105, 120>>,
       strike_prices |-> <<100>>, premiums |-> <<5>>, positions |-> <<"Call">>,
       avg_stock_price |-> None],
      [strategy |-> "Iron Condor", stock_prices |-> <<85, 88, 90, 100, 110, 112, 115>>,
       strike_prices |-> <<110, 115, 90, 85>>, premiums |-> <<2, 1, 2, 1>>,
       positions |-> <<"Call", "Call", "Put", "Put">>, avg_stock_price |-> None],
      [strategy |-> "Collar", stock_prices |-> <<95, 97, 102>>,
       strike_prices |-> <<95, 105>>, premiums |-> <<3, 2>>,
       positions |-> <<"Put", "Call">>, avg_stock_price |-> Some(100)],
      [strategy |-> "Collar", stock_prices |-> <<95, 97, 102>>,
       strike_prices |-> <<95, 105>>, premiums |-> <<3, 2>>,
       positions |-> <<"Put", "Call">>, avg_stock_price |-> None] }

-----------------------------------------------------------------------------
(* The state machine: the arguments of a call are chosen, then the two     *)
(* functions are applied to them, in either order.  repeated records that  *)
(* a call has been made again with the arguments of an earlier call.       *)

(* Arguments with the leg count of the strategy (the count of its call     *)
(* site; one or two legs for a name outside the catalog).  Strategies of   *)
(* one or two legs take every combination of leg kinds.                    *)
InitLegs ==
    /\ strategy \in StrategyNames
    /\ stock_prices = PriceGrid
    /\ \E n \in 1..4 :
        /\ IF strategy \in STRATEGIES THEN n = Len(caller_positions(strategy))
                                      ELSE n <= 2
        /\ strike_prices \in [1..n -> Strikes]
        /\ premiums \in [1..n -> Premiums]
        /\ IF n <= 2 THEN positions \in [1..n -> Kinds]
                     ELSE positions = caller_positions(strategy)
    /\ IF strategy \in StockLinked
       THEN avg_stock_price \in {None} \cup {Some(a) : a \in AvgPrices}
       ELSE avg_stock_price = None

(* Arguments whose three leg sequences have any lengths, equal or not.     *)
InitLengths ==
    /\ strategy \in StrategyNames
    /\ stock_prices = PriceGrid
    /\ \E ns \in 0..MaxLegs, np \in 0..MaxLegs, nk \in 0..MaxLegs :
        /\ strike_prices = [i \in 1..ns |-> 2]
        /\ premiums = [i \in 1..np |-> 1]
        /\ \E kind \in {"Call", "Stock"} : positions = [i \in 1..nk |-> kind]
    /\ IF strategy \in StockLinked
       THEN avg_stock_price \in {None, Some(2)}
       ELSE avg_stock_price = None

InitScenario ==
    \E c \in Scenarios :
        /\ strategy = c.strategy
        /\ stock_prices = c.stock_prices
        /\ strike_prices = c.strike_prices
        /\ premiums = c.premiums
        /\ positions = c.positions
        /\ avg_stock_price = c.avg_stock_price

Init ==
    /\ InitLegs \/ InitLengths \/ InitScenario
    /\ payoff = Pending
    /\ break_even_points = Pending
    /\ repeated = FALSE

Evaluate ==
    /\ payoff = Pending
    /\ payoff' = calculate_payoff(strategy, stock_prices, strike_prices, premiums,
                                  positions, avg_stock_price)
    /\ stock_prices' = stock_prices_after_payoff(stock_prices, payoff')
    /\ UNCHANGED <<strategy, strike_prices, premiums, positions,
                   avg_stock_price, break_even_points, repeated>>

Solve ==
    /\ break_even_points = Pending
    /\ break_even_points' = calculate_break_even(strategy, strike_prices, premiums,
                                                 avg_stock_price)
    /\ UNCHANGED <<strategy, stock_prices, strike_prices, premiums, positions,
                   avg_stock_price, payoff, repeated>>

Next == Evaluate \/ Solve

Spec == Init /\ [][Next]_vars

(* The same calls made again, after any earlier calls, with the arguments  *)
(* as the earlier calls left them.                                         *)
EvaluateAgain ==
    /\ payoff # Pending
    /\ payoff' = calculate_payoff(strategy, stock_prices, strike_prices, premiums,
                                  positions, avg_stock_price)
    /\ stock_prices' = stock_prices_after_payoff(stock_prices, payoff')
    /\ repeated' = TRUE
    /\ UNCHANGED <<strategy, strike_prices, premiums, positions,
                   avg_stock_price, break_even_points>>

SolveAgain ==
    /\ break_even_points # Pending
    /\ break_even_points' = calculate_break_even(strategy, strike_prices, premiums,
                                                 avg_stock_price)
    /\ repeated' = TRUE
    /\ UNCHANGED <<strategy, stock_prices, strike_prices, premiums, positions,
                   avg_stock_price, payoff>>

NextCalls == Evaluate \/ Solve \/ EvaluateAgain \/ SolveAgain

SpecCalls == Init /\ [][NextCalls]_vars

-----------------------------------------------------------------------------
(* Vocabulary of the properties.                                           *)

(* The leg count the contract of the evaluator requires of a strategy.     *)
RequiredLegs(name) ==
    CASE name \in {"Iron Condor", "Iron Butterfly"} -> 4
      [] name = "Butterfly Spread" -> 3
      [] name \in {"Bull Put Spread", "Bear Call Spread", "Collar", "Long Straddle",
                   "Short Straddle", "Long Strangle", "Short Strangle"} -> 2
      [] OTHER -> 1

(* A valid leg configuration of a catalog strategy: the required leg       *)
(* count in all three sequences, the leg kinds of the strategy's roles,    *)
(* and the average stock price when the strategy is stock-linked.          *)
ValidLegs ==
    /\ strategy \in STRATEGIES
    /\ Len(strike_prices) = RequiredLegs(strategy)
    /\ Len(premiums) = RequiredLegs(strategy)
    /\ positions = caller_positions(strategy)
    /\ \A i \in 1..Len(strike_prices) : strike_prices[i] > 0
    /\ \A i \in 1..Len(premiums) : premiums[i] >= 0

ValidConfiguration == ValidLegs /\ (strategy \in StockLinked => ~IsNone(avg_stock_price))

Evaluated == payoff # Pending
Solved == break_even_points # Pending

K(i) == At(strike_prices, i)
P(i) == At(premiums, i)

(* The evaluator applied to the arguments of the state, at the single      *)
(* underlying price S.                                                     *)
PayoffAtPrice(S) ==
    calculate_payoff(strategy, <<S>>, strike_prices, premiums, positions,
                     avg_stock_price)

IsZeroOfPayoff(S) == PayoffAtPrice(S) = Return(<<0>>)

(* Every number in the returned break-even list is a zero of the payoff.   *)
RootsAreZeros ==
    /\ Returned(break_even_points)
    /\ \A i \in 1..Len(Value(break_even_points)) :
          IsNum(Value(break_even_points)[i])
              => IsZeroOfPayoff(Value(break_even_points)[i][2])

-----------------------------------------------------------------------------
(* C1: consistency law -- for every catalog strategy and every valid leg   *)
(* configuration, each price returned by calculate_break_even, put into    *)
(* calculate_payoff as the underlying price, gives payoff 0.               *)
C1_ConsistencyLaw ==
    (Solved /\ ValidConfiguration) => RootsAreZeros

(* C2: for Covered Call and Protective Put with the average supplied, the  *)
(* single returned price (avg + premium, avg - premium) is a zero of the   *)
(* payoff of that strategy.                                                *)
C2_StockLinkedRootIsZero ==
    (Solved /\ ValidConfiguration /\ strategy \in {"Covered Call", "Protective Put"})
        => /\ Returned(break_even_points)
           /\ Len(Value(break_even_points)) = 1
           /\ IsNum(Value(break_even_points)[1])
           /\ IsZeroOfPayoff(Value(break_even_points)[1][2])

(* C3: for Collar with the average supplied and put strike <= call strike, *)
(* both returned prices (avg - put premium, avg + call premium) are zeros  *)
(* of the Collar payoff.                                                   *)
C3_CollarRootsAreZeros ==
    (Solved /\ ValidConfiguration /\ strategy = "Collar" /\ K(0) <= K(1))
        => /\ Returned(break_even_points)
           /\ IsZeroOfPayoff(Val(avg_stock_price) - P(0))
           /\ IsZeroOfPayoff(Val(avg_stock_price) + P(1))

(* C4: calculate_break_even returns a list of 0, 1 or 2 entries, and two   *)
(* numeric entries are in ascending order.                                 *)
C4_AscendingRoots ==
    (Solved /\ ValidConfiguration)
        => /\ Returned(break_even_points)
           /\ Len(Value(break_even_points)) \in 0..2
           /\ (/\ Len(Value(break_even_points)) = 2
               /\ IsNum(Value(break_even_points)[1])
               /\ IsNum(Value(break_even_points)[2]))
              => Value(break_even_points)[1][2] <= Value(break_even_points)[2][2]

(* C5: for Iron Butterfly [long put, short put, short call, long call] the *)
(* solver returns [short-put strike - T, short-call strike + T] with       *)
(* T = p0 - p1 - p2 + p3: the upper root is built from strike 2.           *)
C5_IronButterflyRoots ==
    (Solved /\ ValidConfiguration /\ strategy = "Iron Butterfly")
        => LET T == P(0) - P(1) - P(2) + P(3)
           IN  break_even_points = Return(<<Num(K(1) - T), Num(K(2) + T)>>)

-----------------------------------------------------------------------------
FourLegGuarded == {"Iron Condor", "Iron Butterfly"}
TwoLegGuarded == {"Bull Put Spread", "Bear Call Spread", "Collar", "Long Straddle",
                  "Short Straddle", "Long Strangle", "Short Strangle"}

TooFewStrikes ==
    \/ strategy \in FourLegGuarded /\ Len(strike_prices) < 4
    \/ strategy \in TwoLegGuarded /\ Len(strike_prices) < 2

(* C6: leg-count rejection -- Iron Condor / Iron Butterfly with fewer than *)
(* 4 strikes, and the two-leg spreads, Collar, straddles and strangles     *)
(* with fewer than 2, fail with the error that names the strategy and the  *)
(* expected count, before any leg is read (no curve, no other error).      *)
C6_LegCountRejection ==
    (Evaluated /\ TooFewStrikes)
        => payoff = Raise(ValueError(strategy,
                                     IF strategy \in FourLegGuarded THEN 4 ELSE 2))

(* An Iron Condor with 2 strikes and no leg kinds at all was rejected.     *)
C6_Witness ==
    /\ Evaluated
    /\ strategy = "Iron Condor"
    /\ Len(strike_prices) = 2
    /\ Len(positions) = 0
    /\ Raised(payoff)

(* C7: calculate_payoff fails with the leg-count error whenever the three  *)
(* leg sequences do not all have the strategy's required length.           *)
C7_InvalidLegCount ==
    (/\ Evaluated
     /\ strategy \in STRATEGIES
     /\ ~(/\ Len(strike_prices) = RequiredLegs(strategy)
          /\ Len(premiums) = RequiredLegs(strategy)
          /\ Len(positions) = RequiredLegs(strategy)))
        => payoff = Raise(ValueError(strategy, RequiredLegs(strategy)))

AllZero(curve) == \A j \in 1..Len(curve) : curve[j] = 0

LongPayoff(kind, S, strike, premium) ==
    CASE kind = "Call" -> Max(S - strike, 0) - premium
      [] kind = "Put" -> Max(strike - S, 0) - premium
      [] OTHER -> 0

RECURSIVE LongLegSum(_, _)
LongLegSum(S, n) ==
    IF n = 0 THEN 0
    ELSE LongLegSum(S, n - 1)
         + LongPayoff(positions[n], S, strike_prices[n], premiums[n])

NoOptionLeg ==
    \A i \in 1..Len(strike_prices) : positions[i] \notin {"Call", "Put"}

C9_DegradedMode ==
    (Evaluated /\ ValidLegs /\ strategy \in StockLinked /\ IsNone(avg_stock_price))
        => /\ Returned(payoff)
           /\ \A j \in 1..Len(stock_prices) :
                LET S == stock_prices[j] IN
                Value(payoff)[j] =
                    CASE strategy = "Covered Call" -> Min(0, K(0) - S) + P(0)
                      [] strategy = "Protective Put" -> Max(K(0) - S, 0) - P(0)
                      [] strategy = "Collar" ->
                            (Max(K(0) - S, 0) - P(0)) + (P(1) - Max(S - K(1), 0))

(* C10: solving a stock-linked strategy without the average stock price    *)
(* does not raise and returns exactly one marker, never a number; with the *)
(* average supplied the marker is never returned.                          *)
C10_MissingAverageMarker ==
    (Solved /\ strategy \in StockLinked)
        => IF IsNone(avg_stock_price)
           THEN break_even_points = Return(<<Str(AvgRequired)>>)
           ELSE Returned(break_even_points)
                    => \A i \in 1..Len(Value(break_even_points)) :
                          IsNum(Value(break_even_points)[i])

(* A Collar was solved without the average and one with it.                *)
C10_Witness ==
    /\ Solved
    /\ strategy = "Collar"
    /\ Len(premiums) = 2
    /\ IsNone(avg_stock_price)
    /\ Returned(break_even_points)
    /\ Len(Value(break_even_points)) = 1
    /\ IsStr(Value(break_even_points)[1])

-----------------------------------------------------------------------------
HasEntry(result, e) ==
    /\ Returned(result)
    /\ \E i \in 1..Len(Value(result)) : Value(result)[i] = e

(* C11: calculate_break_even returns the "N/A" marker exactly when the     *)
(* strategy name is not a key of STRATEGIES; a catalog name never gets     *)
(* "N/A", and "N/A" is not the missing-average marker.                     *)
C11_NotApplicableMarker ==
    Solved =>
        /\ strategy \notin STRATEGIES
              => break_even_points = Return(<<Str("N/A")>>)
        /\ strategy \in STRATEGIES
              => ~HasEntry(break_even_points, Str("N/A"))
        /\ ValidConfiguration
              => /\ Returned(break_even_points)
                 /\ \A i \in 1..Len(Value(break_even_points)) :
                       IsNum(Value(break_even_points)[i])
        /\ ~(HasEntry(break_even_points, Str("N/A"))
             /\ HasEntry(break_even_points, Str("Avg Stock Price Required")))

(* A name outside the catalog was solved and got the marker.               *)
C11_Witness ==
    /\ Solved
    /\ strategy \notin STRATEGIES
    /\ Len(strike_prices) = 2
    /\ HasEntry(break_even_points, Str("N/A"))

-----------------------------------------------------------------------------
ShortVariant(name) ==
    CASE name = "Long Straddle" -> "Short Straddle"
      [] name = "Long Strangle" -> "Short Strangle"

(* The evaluator applied to the arguments of the state under another name. *)
PayoffOf(name) ==
    calculate_payoff(name, stock_prices, strike_prices, premiums, positions,
                     avg_stock_price)

(* C12: symmetry law -- with identical strikes and premiums, at every      *)
(* underlying price the Long Straddle payoff is the negation of the Short  *)
(* Straddle payoff, and the Long Strangle payoff the negation of the Short *)
(* Strangle payoff.                                                        *)
C12_SymmetryLaw ==
    (Evaluated /\ strategy \in {"Long Straddle", "Long Strangle"})
        => LET short == PayoffOf(ShortVariant(strategy)) IN
           /\ Returned(payoff) <=> Returned(short)
           /\ Returned(payoff)
                => /\ Len(Value(short)) = Len(Value(payoff))
                   /\ \A j \in 1..Len(Value(payoff)) :
                         Value(payoff)[j] = -Value(short)[j]

(* A Long Straddle with two different premiums was evaluated, and its      *)
(* curve has a gain and a loss.                                            *)
C12_Witness ==
    /\ Evaluated
    /\ strategy = "Long Straddle"
    /\ Returned(payoff)
    /\ P(0) # P(1)
    /\ \E i, j \in 1..Len(Value(payoff)) :
          Value(payoff)[i] > 0 /\ Value(payoff)[j] < 0

-----------------------------------------------------------------------------
SingleLeg(name, kind) ==
    /\ strategy = name
    /\ Len(strike_prices) = 1
    /\ Len(premiums) = 1
    /\ positions = <<kind>>

(* C13: single-leg payoff -- Long Call with one "Call" leg (K, p) returns  *)
(* max(S - K, 0) - p at every grid point, Long Put with one "Put" leg      *)
(* max(K - S, 0) - p; for K = 100, p = 5 the Long Call payoff at 90, 100,  *)
(* 105, 120 is -5, -5, 0, 15.                                              *)
C13_SingleLegPayoff ==
    Evaluated =>
        /\ SingleLeg("Long Call", "Call")
              => /\ Returned(payoff)
                 /\ Len(Value(payoff)) = Len(stock_prices)
                 /\ \A j \in 1..Len(stock_prices) :
                       Value(payoff)[j] = Max(stock_prices[j] - K(0), 0) - P(0)
        /\ SingleLeg("Long Put", "Put")
              => /\ Returned(payoff)
                 /\ Len(Value(payoff)) = Len(stock_prices)
                 /\ \A j \in 1..Len(stock_prices) :
                       Value(payoff)[j] = Max(K(0) - stock_prices[j], 0) - P(0)
        /\ (/\ SingleLeg("Long Call", "Call")
            /\ strike_prices = <<100>>
            /\ premiums = <<5>>
            /\ stock_prices = <<90, 100, 105, 120>>)
              => payoff = Return(<<-5, -5, 0, 15>>)

(* The Long Call 100 / 5 was evaluated on 90, 100, 105, 120.               *)
C13_Witness ==
    /\ Evaluated
    /\ SingleLeg("Long Call", "Call")
    /\ strike_prices = <<100>>
    /\ premiums = <<5>>
    /\ stock_prices = <<90, 100, 105, 120>>
    /\ Returned(payoff)

(* C14: monotonic tail law -- the Long Call payoff is -premium for every   *)
(* S <= strike and non-decreasing in S for S >= strike; the Long Put       *)
(* payoff is -premium for every S >= strike and non-increasing in S for    *)
(* S <= strike.                                                            *)
C14_MonotonicTail ==
    (Evaluated /\ (SingleLeg("Long Call", "Call") \/ SingleLeg("Long Put", "Put")))
        => /\ Returned(payoff)
           /\ \A i, j \in 1..Len(stock_prices) :
                LET Si == stock_prices[i]
                    Sj == stock_prices[j]
                    flat == IF strategy = "Long Call" THEN Si <= K(0) ELSE Si >= K(0)
                    tail == IF strategy = "Long Call" THEN K(0) <= Si /\ Si <= Sj
                                                      ELSE Si <= Sj /\ Sj <= K(0)
                IN  /\ flat => Value(payoff)[i] = -P(0)
                    /\ tail => IF strategy = "Long Call"
                               THEN Value(payoff)[i] <= Value(payoff)[j]
                               ELSE Value(payoff)[i] >= Value(payoff)[j]

(* A Long Put was evaluated on a grid with points on both sides of the     *)
(* strike, with a gain below it.                                           *)
C14_Witness ==
    /\ Evaluated
    /\ SingleLeg("Long Put", "Put")
    /\ Returned(payoff)
    /\ \E i, j \in 1..Len(stock_prices) :
          /\ stock_prices[i] < K(0)
          /\ stock_prices[j] > K(0)
          /\ Value(payoff)[i] > Value(payoff)[j]

-----------------------------------------------------------------------------
(* C15: Iron Condor maximum profit -- with legs [short call K0, long call  *)
(* K1, short put K2, long put K3] and K3 <= K2 <= K0 <= K1, the payoff is  *)
(* the net credit (p0 + p2) - (p1 + p3) at every S with K2 <= S <= K0, and *)
(* no S gives more; for 110/2, 115/1, 90/2, 85/1 the payoff at 100 is 2.   *)
C15_IronCondorMaxProfit ==
    (/\ Evaluated
     /\ ValidLegs
     /\ strategy = "Iron Condor"
     /\ K(3) <= K(2) /\ K(2) <= K(0) /\ K(0) <= K(1))
        => LET net_credit == (P(0) + P(2)) - (P(1) + P(3)) IN
           /\ Returned(payoff)
           /\ \A j \in 1..Len(stock_prices) :
                /\ (K(2) <= stock_prices[j] /\ stock_prices[j] <= K(0))
                      => Value(payoff)[j] = net_credit
                /\ Value(payoff)[j] <= net_credit
           /\ (strike_prices = <<110, 115, 90, 85>> /\ premiums = <<2, 1, 2, 1>>)
                => \A j \in 1..Len(stock_prices) :
                      stock_prices[j] = 100 => Value(payoff)[j] = 2

(* An ordered Iron Condor with distinct short strikes was evaluated: the   *)
(* curve holds the net credit between them and less outside.               *)
C15_Witness ==
    /\ Evaluated
    /\ ValidLegs
    /\ strategy = "Iron Condor"
    /\ K(3) < K(2) /\ K(2) < K(0) /\ K(0) < K(1)
    /\ Returned(payoff)
    /\ \E i, j \in 1..Len(stock_prices) :
          /\ K(2) <= stock_prices[i] /\ stock_prices[i] <= K(0)
          /\ Value(payoff)[i] = (P(0) + P(2)) - (P(1) + P(3))
          /\ Value(payoff)[j] < Value(payoff)[i]

(* C16: Collar payoff -- with the average supplied and legs [put K0/p0,    *)
(* call K1/p1] the curve is (S - avg) + max(K0 - S, 0) - p0                *)
(* - max(S - K1, 0) + p1 at every S; for avg = 100, put 95/3, call 105/2   *)
(* the payoff at 95 is -6.                                                 *)
C16_CollarPayoff ==
    (/\ Evaluated
     /\ strategy = "Collar"
     /\ Len(strike_prices) = 2
     /\ Len(premiums) = 2
     /\ Len(positions) = 2
     /\ ~IsNone(avg_stock_price))
        => /\ Returned(payoff)
           /\ Len(Value(payoff)) = Len(stock_prices)
           /\ \A j \in 1..Len(stock_prices) :
                LET S == stock_prices[j] IN
                Value(payoff)[j] = (S - Val(avg_stock_price)) + Max(K(0) - S, 0) - P(0)
                                   - Max(S - K(1), 0) + P(1)
           /\ (/\ strike_prices = <<95, 105>>
               /\ premiums = <<3, 2>>
               /\ avg_stock_price = Some(100))
                => \A j \in 1..Len(stock_prices) :
                      stock_prices[j] = 95 => Value(payoff)[j] = -6

(* The Collar 100, 95/3, 105/2 was evaluated at 95.                        *)
C16_Witness ==
    /\ Evaluated
    /\ strategy = "Collar"
    /\ strike_prices = <<95, 105>>
    /\ premiums = <<3, 2>>
    /\ avg_stock_price = Some(100)
    /\ Returned(payoff)
    /\ stock_prices[1] = 95
    /\ Value(payoff)[1] = -6

-----------------------------------------------------------------------------
(* The strike and premium lists have the leg count of the strategy, and    *)
(* the average is supplied when the strategy is stock-linked.              *)
SolverLegs ==
    /\ strategy \in STRATEGIES
    /\ Len(strike_prices) = RequiredLegs(strategy)
    /\ Len(premiums) = RequiredLegs(strategy)
    /\ strategy \in StockLinked => ~IsNone(avg_stock_price)

Roots(lower, upper) == Return(<<Num(lower), Num(upper)>>)
Root(x) == Return(<<Num(x)>>)

(* C17: two-root closed forms -- [K2 - c, K0 + c], c = (p0 + p2) -         *)
(* (p1 + p3), for Iron Condor; [K0 - t, K0 + t], t = p0 + p1, for the      *)
(* straddles; [K1 - t, K0 + t] for the strangles; [K0 + n, K2 - n],        *)
(* n = p0 - 2 p1 + p2, for Butterfly Spread; [avg - p0, avg + p1] for      *)
(* Collar; [88, 112] for the Iron Condor 110/2, 115/1, 90/2, 85/1.         *)
C17_TwoRootClosedForms ==
    (Solved /\ SolverLegs) =>
        /\ strategy = "Iron Condor"
              => LET c == (P(0) + P(2)) - (P(1) + P(3))
                 IN  break_even_points = Roots(K(2) - c, K(0) + c)
        /\ strategy \in {"Long Straddle", "Short Straddle"}
              => break_even_points = Roots(K(0) - (P(0) + P(1)), K(0) + (P(0) + P(1)))
        /\ strategy \in {"Long Strangle", "Short Strangle"}
              => break_even_points = Roots(K(1) - (P(0) + P(1)), K(0) + (P(0) + P(1)))
        /\ strategy = "Butterfly Spread"
              => LET n == P(0) - 2 * P(1) + P(2)
                 IN  break_even_points = Roots(K(0) + n, K(2) - n)
        /\ strategy = "Collar"
              => break_even_points = Roots(Val(avg_stock_price) - P(0),
                                           Val(avg_stock_price) + P(1))
        /\ (/\ strategy = "Iron Condor"
            /\ strike_prices = <<110, 115, 90, 85>>
            /\ premiums = <<2, 1, 2, 1>>)
              => break_even_points = Roots(88, 112)

(* A Long Strangle with a put strike below the call strike was solved.     *)
C17_Witness ==
    /\ Solved
    /\ SolverLegs
    /\ strategy = "Long Strangle"
    /\ K(1) < K(0)
    /\ P(0) + P(1) > 0
    /\ Returned(break_even_points)
    /\ Len(Value(break_even_points)) = 2

(* C18: single-root closed forms -- [K0 + p0] for Long Call, [K0 - p0]     *)
(* for Long Put, [avg + p0] for Covered Call, [avg - p0] for Protective    *)
(* Put, [K0 - (p0 - p1)] for Bull Put Spread and [K0 + (p0 - p1)] for Bear *)
(* Call Spread, index 0 being the short leg of each spread.                *)
C18_SingleRootClosedForms ==
    (Solved /\ SolverLegs) =>
        /\ strategy = "Long Call" => break_even_points = Root(K(0) + P(0))
        /\ strategy = "Long Put" => break_even_points = Root(K(0) - P(0))
        /\ strategy = "Covered Call"
              => break_even_points = Root(Val(avg_stock_price) + P(0))
        /\ strategy = "Protective Put"
              => break_even_points = Root(Val(avg_stock_price) - P(0))
        /\ strategy = "Bull Put Spread"
              => break_even_points = Root(K(0) - (P(0) - P(1)))
        /\ strategy = "Bear Call Spread"
              => break_even_points = Root(K(0) + (P(0) - P(1)))
        /\ (strategy = "Long Call" /\ strike_prices = <<100>> /\ premiums = <<5>>)
              => break_even_points = Root(105)

(* A Bull Put Spread with a positive net credit was solved.                *)
C18_Witness ==
    /\ Solved
    /\ SolverLegs
    /\ strategy = "Bull Put Spread"
    /\ P(0) > P(1)
    /\ K(1) < K(0)
    /\ Returned(break_even_points)
    /\ Len(Value(break_even_points)) = 1

-----------------------------------------------------------------------------
(* C19: Bull Put Spread profile -- with legs [short put K0/p0, long put    *)
(* K1/p1] and K1 <= K0 the payoff at every S is (p0 - p1) - max(K0 - S, 0) *)
(* + max(K1 - S, 0); its maximum p0 - p1 is attained for all S >= K0 and   *)
(* its minimum (p0 - p1) - (K0 - K1) for all S <= K1.                      *)
C19_BullPutSpreadProfile ==
    (/\ Evaluated
     /\ strategy = "Bull Put Spread"
     /\ Len(strike_prices) = 2
     /\ Len(premiums) = 2
     /\ Len(positions) = 2
     /\ K(1) <= K(0))
        => /\ Returned(payoff)
           /\ \A j \in 1..Len(stock_prices) :
                LET S == stock_prices[j]
                    v == Value(payoff)[j]
                IN  /\ v = (P(0) - P(1)) - Max(K(0) - S, 0) + Max(K(1) - S, 0)
                    /\ v <= P(0) - P(1)
                    /\ S >= K(0) => v = P(0) - P(1)
                    /\ v >= (P(0) - P(1)) - (K(0) - K(1))
                    /\ S <= K(1) => v = (P(0) - P(1)) - (K(0) - K(1))

(* A Bull Put Spread with K1 < K0 was evaluated: the curve reaches its     *)
(* maximum above K0 and its lower minimum below K1.                        *)
C19_Witness ==
    /\ Evaluated
    /\ strategy = "Bull Put Spread"
    /\ Len(strike_prices) = 2
    /\ Len(premiums) = 2
    /\ Len(positions) = 2
    /\ K(1) < K(0)
    /\ Returned(payoff)
    /\ \E i, j \in 1..Len(stock_prices) :
          /\ stock_prices[i] <= K(1)
          /\ stock_prices[j] >= K(0)
          /\ Value(payoff)[i] = (P(0) - P(1)) - (K(0) - K(1))
          /\ Value(payoff)[j] = P(0) - P(1)

ButterflyLegs ==
    /\ strategy = "Butterfly Spread"
    /\ Len(strike_prices) = 3
    /\ Len(premiums) = 3
    /\ Len(positions) = 3
    /\ K(0) <= K(1) /\ K(1) <= K(2)

NetPremiumPaid == P(0) - 2 * P(1) + P(2)

Equidistant == K(1) - K(0) = K(2) - K(1)

(* The curve is nowhere above the payoff at the middle strike K1.          *)
MaxAtMiddleStrike ==
    /\ Returned(PayoffAtPrice(K(1)))
    /\ \A j \in 1..Len(stock_prices) :
          Value(payoff)[j] <= Value(PayoffAtPrice(K(1)))[1]

-----------------------------------------------------------------------------
(* C21: Covered Call cap -- with the average stock price supplied, the     *)
(* payoff at every grid price S is (S - avg) + min(0, strike - S)          *)
(* + premium; for S >= strike it is the constant strike - avg + premium,   *)
(* and for S <= strike it is S - avg + premium.                            *)
C21_CoveredCallCap ==
    (/\ strategy = "Covered Call"
     /\ ~IsNone(avg_stock_price)
     /\ Returned(payoff))
    => \A j \in 1..Len(stock_prices) :
          LET S == stock_prices[j]
              avg == Val(avg_stock_price)
              v == Value(payoff)[j]
          IN  /\ v = (S - avg) + Min(0, K(0) - S) + P(0)
              /\ S >= K(0) => v = K(0) - avg + P(0)
              /\ S <= K(0) => v = S - avg + P(0)

(* A Covered Call curve with grid prices on both sides of the strike; the  *)
(* price above the strike pays the cap, less than the uncapped stock.      *)
C21_Witness ==
    /\ strategy = "Covered Call"
    /\ ~IsNone(avg_stock_price)
    /\ Returned(payoff)
    /\ \E i, j \in 1..Len(stock_prices) :
          /\ stock_prices[i] < K(0)
          /\ stock_prices[j] > K(0)
          /\ Value(payoff)[j] = K(0) - Val(avg_stock_price) + P(0)
          /\ Value(payoff)[j] < stock_prices[j] - Val(avg_stock_price) + P(0)
          /\ Value(payoff)[i] = stock_prices[i] - Val(avg_stock_price) + P(0)

-----------------------------------------------------------------------------
(* A sequence last element first.                                          *)
Reversed(seq) == [j \in 1..Len(seq) |-> seq[Len(seq) + 1 - j]]

(* The evaluator applied to the legs of the state and another price grid.  *)
PayoffOnGrid(grid) ==
    calculate_payoff(strategy, grid, strike_prices, premiums, positions,
                     avg_stock_price)

(* The price one unit above the last price of the grid.                    *)
NextPrice == stock_prices[Len(stock_prices)] + 1

(* C22: for every call of calculate_payoff that returns, the curve has     *)
(* the length and the order of the price grid, and element i depends only  *)
(* on grid element i and the legs: it is the curve of the one-point grid   *)
(* of that price, the reversed grid gives the reversed curve, and the grid *)
(* extended by a further price gives the curve extended by that price's    *)
(* payoff.                                                                 *)
C22_PointwiseCurve ==
    Returned(payoff)
    => /\ Len(Value(payoff)) = Len(stock_prices)
       /\ \A j \in 1..Len(stock_prices) :
             PayoffAtPrice(stock_prices[j]) = Return(<<Value(payoff)[j]>>)
       /\ PayoffOnGrid(Reversed(stock_prices)) = Return(Reversed(Value(payoff)))
       /\ LET S == NextPrice
              atS == PayoffAtPrice(S)
          IN  /\ Returned(atS)
              /\ PayoffOnGrid(Append(stock_prices, S))
                     = Return(Append(Value(payoff), Value(atS)[1]))

(* A returned curve that is not symmetric under reversal, so that the      *)
(* order of the grid shows in the curve.                                   *)
C22_Witness ==
    /\ Returned(payoff)
    /\ Len(Value(payoff)) >= 2
    /\ Reversed(Value(payoff)) # Value(payoff)
    /\ PayoffOnGrid(Reversed(stock_prices)) = Return(Reversed(Value(payoff)))

-----------------------------------------------------------------------------
(* The arguments of the calls.                                             *)
Arguments ==
    <<strategy, stock_prices, strike_prices, premiums, positions, avg_stock_price>>

-----------------------------------------------------------------------------
(* The three leg sequences have the leg count of the strategy.             *)
FullLegs ==
    /\ strategy \in STRATEGIES
    /\ Len(strike_prices) = RequiredLegs(strategy)
    /\ Len(premiums) = RequiredLegs(strategy)
    /\ Len(positions) = RequiredLegs(strategy)

IronCondorCredit == (P(0) + P(2)) - (P(1) + P(3))

(* The strikes and premiums under which the credit spreads' closed forms   *)
(* fall on the sloped parts of their curves.                               *)
CreditSpreadInRange ==
    \/ /\ strategy = "Iron Condor"
       /\ K(3) <= K(2) /\ K(2) <= K(0) /\ K(0) <= K(1)
       /\ 0 <= IronCondorCredit
       /\ IronCondorCredit <= K(1) - K(0)
       /\ IronCondorCredit <= K(2) - K(3)
    \/ /\ strategy = "Bull Put Spread"
       /\ 0 <= P(0) - P(1)
       /\ P(0) - P(1) <= K(0) - K(1)
    \/ /\ strategy = "Bear Call Spread"
       /\ 0 <= P(0) - P(1)
       /\ P(0) - P(1) <= K(1) - K(0)

(* C24: for Iron Condor with K3 <= K2 <= K0 <= K1 and net credit c with    *)
(* 0 <= c <= K1 - K0 and c <= K2 - K3, for Bull Put Spread with            *)
(* 0 <= p0 - p1 <= K0 - K1, and for Bear Call Spread with                  *)
(* 0 <= p0 - p1 <= K1 - K0, every price returned by calculate_break_even   *)
(* is a zero of calculate_payoff for the same legs.                        *)
C24_CreditSpreadRootsAreZeros ==
    (Solved /\ FullLegs /\ CreditSpreadInRange) => RootsAreZeros

(* An Iron Condor with a positive credit inside both wings: two distinct   *)
(* prices are returned and the curve is 0 at both.                         *)
C24_Witness ==
    /\ Solved
    /\ FullLegs
    /\ strategy = "Iron Condor"
    /\ CreditSpreadInRange
    /\ IronCondorCredit > 0
    /\ break_even_points = Roots(K(2) - IronCondorCredit, K(0) + IronCondorCredit)
    /\ IsZeroOfPayoff(K(2) - IronCondorCredit)
    /\ IsZeroOfPayoff(K(0) + IronCondorCredit)
    /\ ~IsZeroOfPayoff(K(0))

-----------------------------------------------------------------------------
Straddles == {"Long Straddle", "Short Straddle"}
Strangles == {"Long Strangle", "Short Strangle"}

(* C25: for Long and Short Straddle with any strike and non-negative       *)
(* premiums, and for Long and Short Strangle with put strike (index 1)     *)
(* <= call strike (index 0) and non-negative premiums, both prices         *)
(* returned by calculate_break_even are zeros of calculate_payoff for the  *)
(* same legs.                                                              *)
C25_StraddleStrangleRootsAreZeros ==
    (/\ Solved
     /\ FullLegs
     /\ \/ strategy \in Straddles
        \/ strategy \in Strangles /\ K(1) <= K(0)
     /\ P(0) >= 0 /\ P(1) >= 0)
    => /\ RootsAreZeros
       /\ Len(Value(break_even_points)) = 2
       /\ IsNum(Value(break_even_points)[1])
       /\ IsNum(Value(break_even_points)[2])

(* A Short Strangle with the put strike below the call strike: the two     *)
(* prices K1 - (p0 + p1) and K0 + (p0 + p1) are returned, the curve is 0   *)
(* at both and is not 0 between the strikes.                               *)
C25_Witness ==
    /\ Solved
    /\ FullLegs
    /\ strategy = "Short Strangle"
    /\ K(1) < K(0)
    /\ break_even_points = Roots(K(1) - (P(0) + P(1)), K(0) + (P(0) + P(1)))
    /\ IsZeroOfPayoff(K(1) - (P(0) + P(1)))
    /\ IsZeroOfPayoff(K(0) + (P(0) + P(1)))
    /\ ~IsZeroOfPayoff(K(0))

-----------------------------------------------------------------------------
IronButterflyCredit == P(1) + P(2) - P(0) - P(3)

(* An Iron Butterfly whose short put and short call share the strike K1,   *)
(* between the wings, with a net credit no larger than either wing.        *)
IronButterflyInRange ==
    /\ strategy = "Iron Butterfly"
    /\ FullLegs
    /\ K(1) = K(2)
    /\ K(0) <= K(1) /\ K(1) <= K(3)
    /\ 0 <= IronButterflyCredit
    /\ IronButterflyCredit <= Min(K(1) - K(0), K(3) - K(1))

(* The numbers of a break-even list, as a set.                             *)
RootSet(result) ==
    {Value(result)[i][2] : i \in {j \in 1..Len(Value(result)) : IsNum(Value(result)[j])}}

(* C26: for Iron Butterfly with short put strike = short call strike = K   *)
(* (K1 = K2), wing strikes K0 <= K <= K3 and net credit                    *)
(* c = p1 + p2 - p0 - p3 with 0 <= c <= min(K - K0, K3 - K), the two       *)
(* values returned by calculate_break_even are, as a set, {K - c, K + c},  *)
(* and both are zeros of the Iron Butterfly payoff.                        *)
C26_IronButterflyRootSet ==
    (Solved /\ IronButterflyInRange)
    => /\ Returned(break_even_points)
       /\ Len(Value(break_even_points)) = 2
       /\ RootSet(break_even_points)
              = {K(1) - IronButterflyCredit, K(1) + IronButterflyCredit}
       /\ IsZeroOfPayoff(K(1) - IronButterflyCredit)
       /\ IsZeroOfPayoff(K(1) + IronButterflyCredit)

(* An Iron Butterfly with a positive credit strictly inside both wings:    *)
(* the list holds K + c first and K - c second, and the curve is 0 at      *)
(* both and not 0 at K.                                                    *)
C26_Witness ==
    /\ Solved
    /\ IronButterflyInRange
    /\ K(0) < K(1) /\ K(1) < K(3)
    /\ IronButterflyCredit > 0
    /\ break_even_points
           = Roots(K(1) + IronButterflyCredit, K(1) - IronButterflyCredit)
    /\ IsZeroOfPayoff(K(1) - IronButterflyCredit)
    /\ ~IsZeroOfPayoff(K(1))

-----------------------------------------------------------------------------
(* A Butterfly Spread with ascending strikes and a net premium paid that   *)
(* is no larger than the lower wing.                                       *)
ButterflyInRange ==
    /\ ButterflyLegs
    /\ 0 <= NetPremiumPaid
    /\ NetPremiumPaid <= K(1) - K(0)

(* C27: for Butterfly Spread with K0 <= K1 <= K2 and net premium           *)
(* n = p0 - 2 p1 + p2 with 0 <= n <= K1 - K0, the lower price K0 + n       *)
(* returned by calculate_break_even is always a zero of the payoff, and    *)
(* the upper price K2 - n (when K1 <= K2 - n) is a zero of the payoff if   *)
(* and only if the strikes are equidistant (K1 - K0 = K2 - K1).            *)
C27_ButterflyRoots ==
    (Solved /\ ButterflyInRange)
    => /\ break_even_points = Roots(K(0) + NetPremiumPaid, K(2) - NetPremiumPaid)
       /\ IsZeroOfPayoff(K(0) + NetPremiumPaid)
       /\ K(1) <= K(2) - NetPremiumPaid
              => (IsZeroOfPayoff(K(2) - NetPremiumPaid) <=> Equidistant)

(* A Butterfly Spread whose wings differ: the lower price is a zero of     *)
(* the curve and the upper price, on the upper wing, is not.               *)
C27_Witness ==
    /\ Solved
    /\ ButterflyInRange
    /\ ~Equidistant
    /\ K(1) <= K(2) - NetPremiumPaid
    /\ break_even_points = Roots(K(0) + NetPremiumPaid, K(2) - NetPremiumPaid)
    /\ IsZeroOfPayoff(K(0) + NetPremiumPaid)
    /\ ~IsZeroOfPayoff(K(2) - NetPremiumPaid)

-----------------------------------------------------------------------------
(* The names for which the evaluator takes no dedicated branch, given the  *)
(* average stock price of the call.                                        *)
TakesNoBranch(name, avg) ==
    \/ name \in {"Long Call", "Long Put"}
    \/ name \notin STRATEGIES
    \/ name \in StockLinked /\ IsNone(avg)

(* The sum over the first n legs of the long payoff of the leg's kind; a   *)
(* leg that is neither a "Call" nor a "Put" adds 0 and reads no premium.   *)
RECURSIVE KindLegSum(_, _)
KindLegSum(S, n) ==
    IF n = 0 THEN 0
    ELSE KindLegSum(S, n - 1)
         + (IF positions[n] \in {"Call", "Put"}
            THEN LongPayoff(positions[n], S, strike_prices[n], premiums[n])
            ELSE 0)

(* C28: generic fallback -- whenever calculate_payoff takes no dedicated   *)
(* branch (Long Call, Long Put, any unknown name, and Covered Call /       *)
(* Protective Put / Collar without an average stock price), the returned   *)
(* curve is, at every grid price, the sum over all legs i of the long      *)
(* payoff of kind legKinds[i] (0 for a kind other than "Call" and "Put");  *)
(* every other such name that returns for the same legs returns the same   *)
(* curve, so the leg kinds and not the name determine the result.          *)
C28_GenericFallback ==
    (TakesNoBranch(strategy, avg_stock_price) /\ Returned(payoff))
    => /\ \A j \in 1..Len(stock_prices) :
             Value(payoff)[j] = KindLegSum(stock_prices[j], Len(strike_prices))
       /\ \A name \in StrategyNames :
             LET other == calculate_payoff(name, stock_prices, strike_prices,
                                           premiums, positions, avg_stock_price)
             IN  (TakesNoBranch(name, avg_stock_price) /\ Returned(other))
                     => other = payoff

(* "Long Call" evaluated with a single "Put" leg returned the long-put     *)
(* curve, which is not the long-call curve.                                *)
C28_Witness ==
    /\ strategy = "Long Call"
    /\ positions = <<"Put">>
    /\ Len(strike_prices) = 1
    /\ Returned(payoff)
    /\ \A j \in 1..Len(stock_prices) :
          Value(payoff)[j] = Max(K(0) - stock_prices[j], 0) - P(0)
    /\ \E j \in 1..Len(stock_prices) :
          Value(payoff)[j] # Max(stock_prices[j] - K(0), 0) - P(0)

-----------------------------------------------------------------------------
(* The evaluator takes a dedicated branch for the strategy of the state.   *)
TakesBranch == ~TakesNoBranch(strategy, avg_stock_price)

(* The evaluator applied to the arguments of the state with other leg      *)
(* kinds.                                                                  *)
PayoffWithKinds(kinds) ==
    calculate_payoff(strategy, stock_prices, strike_prices, premiums, kinds,
                     avg_stock_price)

(* The leg-kind sequences of the length of positions the calls are         *)
(* compared over: all of them up to three legs; for longer sequences       *)
(* those that differ from positions in one entry and those that hold one   *)
(* kind throughout.                                                        *)
OtherKinds ==
    IF Len(positions) <= 3 THEN [1..Len(positions) -> Kinds]
    ELSE {[positions EXCEPT ![i] = k] : i \in 1..Len(positions), k \in Kinds}
         \cup {[i \in 1..Len(positions) |-> k] : k \in Kinds}

ReadsMissingPremium(kinds) ==
    \E i \in 1..Len(strike_prices) :
        i <= Len(kinds) /\ i > Len(premiums) /\ kinds[i] \in {"Call", "Put"}

-----------------------------------------------------------------------------
(* The strikes of the state with strike_prices[1] replaced.                *)
WithPutStrike(k) == [strike_prices EXCEPT ![2] = k]

(* C30: for Long Straddle and Short Straddle, calculate_payoff and         *)
(* calculate_break_even use only strike_prices[0] for the call and the     *)
(* put -- a call that differs only in strike_prices[1] returns the same    *)
(* curve and the same break-even list, so a put strike different from the  *)
(* call strike is ignored.                                                 *)
C30_StraddlePutStrikeIgnored ==
    (strategy \in Straddles /\ Len(strike_prices) >= 2)
    => \A k \in 0..(MaxStrike + 1) :
          /\ Evaluated
                 => calculate_payoff(strategy, stock_prices, WithPutStrike(k),
                                     premiums, positions, avg_stock_price) = payoff
          /\ Solved
                 => calculate_break_even(strategy, WithPutStrike(k), premiums,
                                         avg_stock_price) = break_even_points

(* A Long Straddle whose put strike differs from its call strike: the      *)
(* curve is |S - K0| - (p0 + p1) and the break-even prices are             *)
(* K0 -/+ (p0 + p1), those of the call strike alone.                       *)
C30_Witness ==
    /\ strategy = "Long Straddle"
    /\ FullLegs
    /\ K(1) # K(0)
    /\ Returned(payoff)
    /\ \A j \in 1..Len(stock_prices) :
          Value(payoff)[j] = Max(stock_prices[j] - K(0), K(0) - stock_prices[j])
                                 - (P(0) + P(1))
    /\ break_even_points = Roots(K(0) - (P(0) + P(1)), K(0) + (P(0) + P(1)))
    /\ calculate_payoff(strategy, stock_prices, WithPutStrike(K(0)), premiums,
                        positions, avg_stock_price) = payoff

====
